---------------------------- MODULE Spec2Model ----------------------------
(***************************************************************************)
(* A model of Configs/.local/lib/hyde/weather.py: one run of the script,   *)
(* from the loading of the two environment files to the JSON line written  *)
(* on standard output.                                                     *)
(*                                                                         *)
(* Python strings that the script parses (environment values, lines of the *)
(* environment files, timestamps) are sequences of one-character strings,  *)
(* so that strip, startswith, split, lower, int and float are computed as  *)
(* the code computes them.  Strings the script only passes through are     *)
(* TLA+ strings.  Icons are named by their code point ("U+2753").          *)
(***************************************************************************)
EXTENDS Integers, Sequences, FiniteSets, TLC

VARIABLES
    pc,                 \* position of the run in the script
    environ,            \* os.environ: a function from names to values
    fs,                 \* the two environment files as the run finds them
    api,                \* what the weather API answers to the one GET
    temp_unit, time_format, windspeed_unit,
    show_icon, show_location, show_today_details,
    FORECAST_DAYS, get_location, lat, lon,
    weather, current, daily,
    data,               \* the record under construction (a dict)
    icon,
    i, stop,            \* the forecast loop: the index, the end of its range
    weather_desc, weather_icon,
    exc,                \* the message of the exception being handled
    stdout, stderr, exit_code

vars ==
    << pc, environ, fs, api, temp_unit, time_format, windspeed_unit,
       show_icon, show_location, show_today_details, FORECAST_DAYS,
       get_location, lat, lon, weather, current, daily, data, icon, i, stop,
       weather_desc, weather_icon, exc, stdout, stderr, exit_code >>

world == << fs, api >>

config ==
    << temp_unit, time_format, windspeed_unit, show_icon, show_location,
       show_today_details, FORECAST_DAYS, get_location, lat, lon >>

payload == << weather, current, daily >>

loop == << icon, i, stop, weather_desc, weather_icon >>

io == << stdout, stderr, exit_code >>

(***************************************************************************)
(* Bounds of the model.                                                    *)
(***************************************************************************)
MaxLines == 2           \* lines of an environment file
MaxUnitLen == 4         \* characters of a unit or time-format value
MaxDaysLen == 3         \* characters of WEATHER_FORECAST_DAYS
MaxLocLen == 5          \* characters of WEATHER_LOCATION
MaxDaily == 4           \* entries of the API's daily arrays
MaxCode == 100          \* weather codes run over -1 .. MaxCode

(***************************************************************************)
(* Python's str methods, on sequences of characters.                       *)
(***************************************************************************)
None == <<>>

Whitespace == {" ", "\t", "\n"}

RECURSIVE lstrip(_, _)
lstrip(s, chars) ==
    IF s # <<>> /\ Head(s) \in chars THEN lstrip(Tail(s), chars) ELSE s

RECURSIVE rstrip(_, _)
rstrip(s, chars) ==
    IF s # <<>> /\ s[Len(s)] \in chars
    THEN rstrip(SubSeq(s, 1, Len(s) - 1), chars)
    ELSE s

strip(s, chars) == rstrip(lstrip(s, chars), chars)

startswith(s, prefix) ==
    Len(s) >= Len(prefix) /\ SubSeq(s, 1, Len(prefix)) = prefix

\* The index of the first sep in s, 0 when there is none.
find(s, sep) ==
    IF \E k \in 1..Len(s) : s[k] = sep
    THEN CHOOSE k \in 1..Len(s) : s[k] = sep /\ \A j \in 1..(k - 1) : s[j] # sep
    ELSE 0

\* s.split(sep): every piece between separators.
RECURSIVE split(_, _)
split(s, sep) ==
    LET k == find(s, sep)
    IN  IF k = 0 THEN <<s>>
        ELSE <<SubSeq(s, 1, k - 1)>> \o split(SubSeq(s, k + 1, Len(s)), sep)

\* s.split(sep, 1): at most one cut, at the first separator.
split1(s, sep) ==
    LET k == find(s, sep)
    IN  IF k = 0 THEN <<s>>
        ELSE <<SubSeq(s, 1, k - 1), SubSeq(s, k + 1, Len(s))>>

UpperCase ==
    <<"A", "B", "C", "D", "E", "F", "G", "H", "I", "J", "K", "L", "M",
      "N", "O", "P", "Q", "R", "S", "T", "U", "V", "W", "X", "Y", "Z">>

LowerCase ==
    <<"a", "b", "c", "d", "e", "f", "g", "h", "i", "j", "k", "l", "m",
      "n", "o", "p", "q", "r", "s", "t", "u", "v", "w", "x", "y", "z">>

lowerchar(c) ==
    IF \E k \in 1..Len(UpperCase) : UpperCase[k] = c
    THEN LowerCase[CHOOSE k \in 1..Len(UpperCase) : UpperCase[k] = c]
    ELSE c

lower(s) == [k \in 1..Len(s) |-> lowerchar(s[k])]

Digits == {"0", "1", "2", "3", "4", "5", "6", "7", "8", "9"}

digit(c) ==
    CASE c = "0" -> 0 [] c = "1" -> 1 [] c = "2" -> 2 [] c = "3" -> 3
      [] c = "4" -> 4 [] c = "5" -> 5 [] c = "6" -> 6 [] c = "7" -> 7
      [] c = "8" -> 8 [] c = "9" -> 9

RECURSIVE digits_value(_)
digits_value(s) ==
    IF s = <<>> THEN 0
    ELSE 10 * digits_value(SubSeq(s, 1, Len(s) - 1)) + digit(s[Len(s)])

all_digits(s) == \A k \in 1..Len(s) : s[k] \in Digits

(***************************************************************************)
(* int(str): surrounding whitespace is dropped, one sign is allowed, the   *)
(* rest must be a non-empty run of digits; anything else is a ValueError.  *)
(* (Underscores between digits and non-ASCII digits, which int() also      *)
(* takes, are outside the alphabets of the model.)                         *)
(***************************************************************************)
int(s) ==
    LET t == strip(s, Whitespace)
        signed == t # <<>> /\ Head(t) \in {"-", "+"}
        body == IF signed THEN Tail(t) ELSE t
    IN  IF body # <<>> /\ all_digits(body)
        THEN [ok |-> TRUE,
              val |-> IF signed /\ Head(t) = "-"
                      THEN 0 - digits_value(body) ELSE digits_value(body)]
        ELSE [ok |-> FALSE, val |-> 0]

(***************************************************************************)
(* float(str), for decimal notation: whitespace dropped, one sign, digits  *)
(* with at most one point and at least one digit.  The value is kept as    *)
(* its decimal expansion: the sign, the digits before the point without    *)
(* leading zeros and the digits after it without trailing zeros.           *)
(* (Exponents, inf, nan and underscores are outside the alphabets of the   *)
(* model.)                                                                 *)
(***************************************************************************)
Decimal(negative, whole, frac) ==
    [neg |-> negative, whole |-> lstrip(whole, {"0"}), frac |-> rstrip(frac, {"0"})]

float(s) ==
    LET t == strip(s, Whitespace)
        signed == t # <<>> /\ Head(t) \in {"-", "+"}
        body == IF signed THEN Tail(t) ELSE t
        parts == split1(body, ".")
        whole == parts[1]
        frac == IF Len(parts) = 2 THEN parts[2] ELSE <<>>
    IN  IF all_digits(whole) /\ all_digits(frac) /\ Len(whole) + Len(frac) > 0
        THEN [ok |-> TRUE, val |-> Decimal(signed /\ Head(t) = "-", whole, frac)]
        ELSE [ok |-> FALSE, val |-> <<>>]

(***************************************************************************)
(* Names and literals of the script.                                       *)
(***************************************************************************)
HOME ==
    <<"H", "O", "M", "E">>
WEATHER_TEMPERATURE_UNIT ==
    <<"W", "E", "A", "T", "H", "E", "R", "_", "T", "E", "M", "P", "E", "R", "A", "T", "U", "R", "E", "_", "U", "N", "I", "T">>
WEATHER_TIME_FORMAT ==
    <<"W", "E", "A", "T", "H", "E", "R", "_", "T", "I", "M", "E", "_", "F", "O", "R", "M", "A", "T">>
WEATHER_WINDSPEED_UNIT ==
    <<"W", "E", "A", "T", "H", "E", "R", "_", "W", "I", "N", "D", "S", "P", "E", "E", "D", "_", "U", "N", "I", "T">>
WEATHER_SHOW_ICON ==
    <<"W", "E", "A", "T", "H", "E", "R", "_", "S", "H", "O", "W", "_", "I", "C", "O", "N">>
WEATHER_SHOW_LOCATION ==
    <<"W", "E", "A", "T", "H", "E", "R", "_", "S", "H", "O", "W", "_", "L", "O", "C", "A", "T", "I", "O", "N">>
WEATHER_SHOW_TODAY_DETAILS ==
    <<"W", "E", "A", "T", "H", "E", "R", "_", "S", "H", "O", "W", "_", "T", "O", "D", "A", "Y", "_", "D", "E", "T", "A", "I", "L", "S">>
WEATHER_FORECAST_DAYS ==
    <<"W", "E", "A", "T", "H", "E", "R", "_", "F", "O", "R", "E", "C", "A", "S", "T", "_", "D", "A", "Y", "S">>
WEATHER_LOCATION ==
    <<"W", "E", "A", "T", "H", "E", "R", "_", "L", "O", "C", "A", "T", "I", "O", "N">>
EXPORT ==
    <<"e", "x", "p", "o", "r", "t", " ">>

(***************************************************************************)
(* os.environ and load_env_file.                                           *)
(***************************************************************************)
getenv(env, key, default) == IF key \in DOMAIN env THEN env[key] ELSE default

setenv(env, key, value) ==
    [k \in DOMAIN env \cup {key} |-> IF k = key THEN value ELSE env[k]]

\* The lines of a file that load_env_file has still to read, applied to env.
\* A line that does not split in two at "=" raises ValueError on the
\* unpacking, and os.environ raises OSError on an empty name: the except
\* clause around the whole loop catches it and the rest of the file is not
\* read.
RECURSIVE load_lines(_, _)
load_lines(lines, env) ==
    IF lines = <<>> THEN env
    ELSE LET line == Head(lines)
         IN  IF strip(line, Whitespace) # <<>> /\ ~startswith(line, <<"#">>)
             THEN LET rest == IF startswith(line, EXPORT)
                              THEN SubSeq(line, Len(EXPORT) + 1, Len(line))
                              ELSE line
                      kv == split1(strip(rest, Whitespace), "=")
                  IN  IF Len(kv) # 2 \/ kv[1] = <<>>
                      THEN env
                      ELSE load_lines(Tail(lines),
                                      setenv(env, kv[1], strip(kv[2], {"\""})))
             ELSE load_lines(Tail(lines), env)

\* A file is either missing (open() raises, the except clause passes) or a
\* sequence of lines, each ending in "\n".
Missing == [exists |-> FALSE, lines |-> <<>>]

File(lines) == [exists |-> TRUE, lines |-> lines]

load_env_file(file, env) ==
    IF file.exists THEN load_lines(file.lines, env) ELSE env


(***************************************************************************)
(* The lookup tables and the formatting functions.                         *)
(***************************************************************************)
WMO_WEATHER_CODES ==
    (0 :> "{U+2600}{U+FE0F}") @@ (1 :> "{U+1F324}{U+FE0F}")
    @@ (2 :> "{U+26C5}") @@ (3 :> "{U+2601}{U+FE0F}")
    @@ (45 :> "{U+1F32B}{U+FE0F}") @@ (48 :> "{U+1F32B}{U+FE0F}")
    @@ (51 :> "{U+1F327}{U+FE0F}") @@ (53 :> "{U+1F327}{U+FE0F}")
    @@ (55 :> "{U+1F327}{U+FE0F}") @@ (61 :> "{U+1F327}{U+FE0F}")
    @@ (63 :> "{U+1F327}{U+FE0F}") @@ (65 :> "{U+1F327}{U+FE0F}")
    @@ (80 :> "{U+1F326}{U+FE0F}") @@ (81 :> "{U+1F326}{U+FE0F}")
    @@ (82 :> "{U+1F326}{U+FE0F}") @@ (95 :> "{U+26C8}{U+FE0F}")
    @@ (96 :> "{U+26C8}{U+FE0F}") @@ (99 :> "{U+26C8}{U+FE0F}")

get_weather_icon(weather_code) ==
    IF weather_code \in DOMAIN WMO_WEATHER_CODES
    THEN WMO_WEATHER_CODES[weather_code]
    ELSE "{U+2753}"

descriptions ==
    (0 :> "Clear sky") @@ (1 :> "Mainly clear") @@ (2 :> "Partly cloudy")
    @@ (3 :> "Overcast") @@ (45 :> "Fog") @@ (48 :> "Depositing rime fog")
    @@ (51 :> "Light drizzle") @@ (53 :> "Moderate drizzle")
    @@ (55 :> "Dense drizzle") @@ (61 :> "Slight rain")
    @@ (63 :> "Moderate rain") @@ (65 :> "Heavy rain")
    @@ (80 :> "Slight rain showers") @@ (81 :> "Moderate rain showers")
    @@ (82 :> "Violent rain showers") @@ (95 :> "Thunderstorm")
    @@ (96 :> "Thunderstorm with slight hail")
    @@ (99 :> "Thunderstorm with heavy hail")

\* get_description with one entry of its table missing.
get_description_incomplete(weather_code) ==
    IF weather_code \in DOMAIN descriptions \ {48}
    THEN descriptions[weather_code]
    ELSE "Unknown"

get_description(weather_code) ==
    IF weather_code \in DOMAIN descriptions
    THEN descriptions[weather_code]
    ELSE "Unknown"

DEG == "{U+00B0}"

\* f"{x:.1f}" of a number given in tenths.
fmt1(tenths) ==
    LET a == IF tenths < 0 THEN 0 - tenths ELSE tenths
    IN  (IF tenths < 0 THEN "-" ELSE "")
            \o ToString(a \div 10) \o "." \o ToString(a % 10)

\* x * 9/5 + 32, in tenths, of a whole number of degrees.
fahrenheit(x) == 18 * x + 320

\* One temperature in the configured unit: f"{x}" in Celsius, one decimal
\* in Fahrenheit.
temperature(x, unit) ==
    IF unit = <<"c">> THEN ToString(x) \o DEG \o "C"
    ELSE fmt1(fahrenheit(x)) \o DEG \o "F"

get_temperature(current_data, unit) ==
    temperature(current_data["temperature_2m"], unit)

get_feels_like(current_data, unit) ==
    LET temp == current_data["temperature_2m"]
        humidity == current_data["relative_humidity_2m"]
        feels_like == IF humidity > 70 THEN temp + 2 ELSE temp
    IN  IF unit = <<"c">> THEN fmt1(10 * feels_like) \o DEG \o "C"
        ELSE fmt1(fahrenheit(feels_like)) \o DEG \o "F"

get_wind_speed(current_data, unit) ==
    IF unit = <<"k", "m", "/", "h">>
    THEN ToString(current_data["wind_speed_10m"]) \o " km/h"
    ELSE fmt1((current_data["wind_speed_10m"] * 621371 + 50000) \div 100000)
            \o " mph"

RECURSIVE join(_)
join(s) == IF s = <<>> THEN "" ELSE Head(s) \o join(Tail(s))

\* dict[key] = value
setitem(d, key, value) ==
    [k \in DOMAIN d \cup {key} |-> IF k = key THEN value ELSE d[k]]

Min(a, b) == IF a < b THEN a ELSE b


(***************************************************************************)
(* Configuration: what the script reads from os.environ and how it         *)
(* validates it.                                                           *)
(***************************************************************************)
DefaultLat == Decimal(FALSE, <<"4", "8">>, <<"8", "5", "6", "6">>)     \* 48.8566
DefaultLon == Decimal(FALSE, <<"2">>, <<"3", "5", "2", "2">>)          \* 2.3522

DefaultLocation ==
    <<"4", "8", ".", "8", "5", "6", "6", ",", "2", ".", "3", "5", "2", "2">>

\* .lower() in ("true", "1", "t", "y", "yes")
truthy(s) ==
    lower(s) \in { <<"t", "r", "u", "e">>, <<"1">>, <<"t">>, <<"y">>,
                   <<"y", "e", "s">> }

\* try: int(...) except ValueError: 3
parse_forecast_days(s) ==
    LET r == int(s) IN IF r.ok THEN r.val ELSE 3

\* parse_location as it would be if lat were bound before the second
\* conversion is attempted.
parse_location_piecewise(s) ==
    LET parts == split(s, ",")
    IN  IF Len(parts) = 2 /\ float(parts[1]).ok /\ float(parts[2]).ok
        THEN <<float(parts[1]).val, float(parts[2]).val>>
        ELSE IF float(parts[1]).ok
        THEN <<float(parts[1]).val, DefaultLon>>
        ELSE <<DefaultLat, DefaultLon>>

\* try: lat, lon = map(float, s.split(",")) except Exception: the defaults.
\* The two names are bound only after both conversions and the count of
\* the pieces have succeeded.
parse_location(s) ==
    LET parts == split(s, ",")
    IN  IF Len(parts) = 2 /\ float(parts[1]).ok /\ float(parts[2]).ok
        THEN <<float(parts[1]).val, float(parts[2]).val>>
        ELSE <<DefaultLat, DefaultLon>>

\* valid_temp_unit without its check.
valid_temp_unit_unchecked(u) == u

valid_temp_unit(u) ==
    IF u \notin { <<"c">>, <<"f">> } THEN <<"c">> ELSE u

valid_time_format(t) ==
    IF t \notin { <<"1", "2", "h">>, <<"2", "4", "h">> }
    THEN <<"1", "2", "h">> ELSE t

valid_windspeed_unit(w) ==
    IF w \notin { <<"k", "m", "/", "h">>, <<"m", "p", "h">> }
    THEN <<"k", "m", "/", "h">> ELSE w

\* valid_forecast_days without its upper limit.
valid_forecast_days_unlimited(n) ==
    IF n < 1 THEN 3 ELSE n

valid_forecast_days(n) ==
    IF n \notin 1..3 THEN 3 ELSE n

(***************************************************************************)
(* The run.  pc names the line of weather.py the run is about to execute.  *)
(***************************************************************************)

\* Line 105.  os.environ.get("HOME") is None when HOME is not set, and
\* os.path.join(None, ...) raises TypeError outside every try: the run ends
\* on the traceback, with exit code 1 and nothing on standard output.
LoadStaterc ==
    /\ pc = "L105"
    /\ IF HOME \in DOMAIN environ
       THEN /\ environ' = load_env_file(fs.staterc, environ)
            /\ pc' = "L106"
            /\ UNCHANGED io
       ELSE /\ stderr' = Append(stderr, "Traceback: TypeError")
            /\ exit_code' = 1
            /\ pc' = "done"
            /\ UNCHANGED << environ, stdout >>
    /\ UNCHANGED << world, config, payload, data, loop, exc >>

\* Line 106.
LoadConfig ==
    /\ pc = "L106"
    /\ IF HOME \in DOMAIN environ
       THEN /\ environ' = load_env_file(fs.config, environ)
            /\ pc' = "L109"
            /\ UNCHANGED io
       ELSE /\ stderr' = Append(stderr, "Traceback: TypeError")
            /\ exit_code' = 1
            /\ pc' = "done"
            /\ UNCHANGED << environ, stdout >>
    /\ UNCHANGED << world, config, payload, data, loop, exc >>

\* Lines 109-125.
ReadEnv ==
    /\ pc = "L109"
    /\ temp_unit' = lower(getenv(environ, WEATHER_TEMPERATURE_UNIT, <<"c">>))
    /\ time_format' = lower(getenv(environ, WEATHER_TIME_FORMAT, <<"1", "2", "h">>))
    /\ windspeed_unit' =
          lower(getenv(environ, WEATHER_WINDSPEED_UNIT, <<"k", "m", "/", "h">>))
    /\ show_icon' = truthy(getenv(environ, WEATHER_SHOW_ICON, <<"T", "r", "u", "e">>))
    /\ show_location' =
          truthy(getenv(environ, WEATHER_SHOW_LOCATION, <<"T", "r", "u", "e">>))
    /\ show_today_details' =
          truthy(getenv(environ, WEATHER_SHOW_TODAY_DETAILS, <<"T", "r", "u", "e">>))
    /\ FORECAST_DAYS' =
          parse_forecast_days(getenv(environ, WEATHER_FORECAST_DAYS, <<"3">>))
    /\ get_location' = getenv(environ, WEATHER_LOCATION, DefaultLocation)
    /\ lat' = parse_location(get_location')[1]
    /\ lon' = parse_location(get_location')[2]
    /\ pc' = "L128"
    /\ UNCHANGED << environ, world, payload, data, loop, exc, io >>

\* Lines 128-145: the validation, then the debug lines on standard error.
Validate ==
    /\ pc = "L128"
    /\ temp_unit' = valid_temp_unit(temp_unit)
    /\ time_format' = valid_time_format(time_format)
    /\ windspeed_unit' = valid_windspeed_unit(windspeed_unit)
    /\ FORECAST_DAYS' = valid_forecast_days(FORECAST_DAYS)
    /\ stderr' = stderr \o
          << "DEBUG: temp_unit", "DEBUG: time_format", "DEBUG: windspeed_unit",
             "DEBUG: show_icon", "DEBUG: show_location",
             "DEBUG: show_today_details", "DEBUG: FORECAST_DAYS",
             "DEBUG: get_location" >>
    /\ pc' = "L157"
    /\ UNCHANGED << show_icon, show_location, show_today_details,
                    get_location, lat, lon >>
    /\ UNCHANGED << environ, world, payload, data, loop, exc, stdout, exit_code >>

\* Lines 148-159: data = {}, the GET, raise_for_status and the JSON decoding.
\* Any failure of the three is caught by the except of line 160.
Fetch ==
    /\ pc = "L157"
    /\ IF api.ok
       THEN /\ weather' = api.json
            /\ pc' = "L167"
            /\ exc' = exc
       ELSE /\ exc' = api.error
            /\ pc' = "L161"
            /\ weather' = weather
    /\ data' = None
    /\ UNCHANGED << environ, world, config, current, daily, loop, io >>

\* fetch_error_record without its tooltip.
fetch_error_record_text_only(d, e) ==
    setitem(d, "text", "{U+2753} Weather Error")

\* The record of the except clause of line 160.
fetch_error_record(d, e) ==
    setitem(setitem(d, "text", "{U+2753} Weather Error"),
            "tooltip", <<"Failed to get weather data: " \o e>>)

\* Lines 161-163.
FetchExcept ==
    /\ pc = "L161"
    /\ data' = fetch_error_record(data, exc)
    /\ stdout' = Append(stdout, data')
    /\ pc' = "L164"
    /\ UNCHANGED << environ, world, config, payload, loop, exc, stderr, exit_code >>

\* sys.exit(1)
fetch_failure_status == 1

\* Line 164.
Exit ==
    /\ pc = "L164"
    /\ exit_code' = fetch_failure_status
    /\ pc' = "done"
    /\ UNCHANGED << environ, world, config, payload, data, loop, exc, stdout, stderr >>


\* KeyError's message for a missing key.
KeyError(key) == "'" \o key \o "'"

IndexError == "list index out of range"

\* JSON null, which response.json() decodes to None.
Null == [json |-> "null"]

NotSubscriptable == "'NoneType' object is not subscriptable"

\* v[key] for a decoded JSON value: "" when it is there, else the message
\* of the TypeError or KeyError it raises.
subscript_error(v, key) ==
    IF v = Null THEN NotSubscriptable
    ELSE IF key \notin DOMAIN v THEN KeyError(key)
    ELSE ""

\* Line 167.
GetCurrent ==
    /\ pc = "L167"
    /\ IF subscript_error(weather, "current") = ""
       THEN current' = weather["current"] /\ pc' = "L168" /\ exc' = exc
       ELSE /\ current' = current
            /\ pc' = "L208"
            /\ exc' = subscript_error(weather, "current")
    /\ UNCHANGED << environ, world, config, weather, daily, data, loop, io >>

\* Line 168.
GetDaily ==
    /\ pc = "L168"
    /\ IF subscript_error(weather, "daily") = ""
       THEN daily' = weather["daily"] /\ pc' = "L171" /\ exc' = exc
       ELSE /\ daily' = daily
            /\ pc' = "L208"
            /\ exc' = subscript_error(weather, "daily")
    /\ UNCHANGED << environ, world, config, weather, current, data, loop, io >>

\* Line 171.
TextTemperature ==
    /\ pc = "L171"
    /\ IF subscript_error(current, "temperature_2m") = ""
       THEN /\ data' = setitem(data, "text", get_temperature(current, temp_unit))
            /\ pc' = "L172"
            /\ exc' = exc
       ELSE /\ data' = data
            /\ pc' = "L208"
            /\ exc' = subscript_error(current, "temperature_2m")
    /\ UNCHANGED << environ, world, config, payload, loop, io >>

\* Lines 172-174.
TextIcon ==
    /\ pc = "L172"
    /\ IF ~show_icon
       THEN pc' = "L175" /\ UNCHANGED << icon, data, exc >>
       ELSE IF subscript_error(current, "weathercode") = ""
            THEN /\ icon' = get_weather_icon(current["weathercode"])
                 /\ data' = setitem(data, "text", icon' \o " " \o data["text"])
                 /\ pc' = "L175"
                 /\ exc' = exc
            ELSE /\ pc' = "L208"
                 /\ exc' = subscript_error(current, "weathercode")
                 /\ UNCHANGED << icon, data >>
    /\ UNCHANGED << environ, world, config, payload, i, stop, weather_desc,
                    weather_icon, io >>

\* Lines 175-176.
TextLocation ==
    /\ pc = "L175"
    /\ data' = IF show_location
               THEN setitem(data, "text", data["text"] \o " | Paris, FR")
               ELSE data
    /\ pc' = "L179"
    /\ UNCHANGED << environ, world, config, payload, loop, exc, io >>

\* The exception of the first d[key] that fails, for the keys in the order
\* they are read; "" when d has them all.
RECURSIVE first_missing(_, _)
first_missing(d, keys) ==
    IF keys = <<>> THEN ""
    ELSE IF subscript_error(d, Head(keys)) # "" THEN subscript_error(d, Head(keys))
    ELSE first_missing(d, Tail(keys))

\* data["tooltip"] += piece.  The tooltip is kept as the sequence of the
\* pieces appended to it; the string is their concatenation.
tooltip_after(d, piece) ==
    setitem(d, "tooltip", d["tooltip"] \o <<piece>>)

\* Line 179.
TooltipHead ==
    /\ pc = "L179"
    /\ LET err == first_missing(current, <<"weathercode", "temperature_2m">>)
       IN  IF err = ""
           THEN /\ data' = setitem(data, "tooltip",
                      << "<b>" \o get_description(current["weathercode"]) \o " "
                         \o get_temperature(current, temp_unit) \o "</b>\n" >>)
                /\ pc' = "L180"
                /\ exc' = exc
           ELSE data' = data /\ pc' = "L208" /\ exc' = err
    /\ UNCHANGED << environ, world, config, payload, loop, io >>

\* Line 180.
TooltipFeelsLike ==
    /\ pc = "L180"
    /\ LET err == first_missing(current, <<"temperature_2m", "relative_humidity_2m">>)
       IN  IF err = ""
           THEN /\ data' = tooltip_after(data,
                      "Feels like: " \o get_feels_like(current, temp_unit) \o "\n")
                /\ pc' = "L181"
                /\ exc' = exc
           ELSE data' = data /\ pc' = "L208" /\ exc' = err
    /\ UNCHANGED << environ, world, config, payload, loop, io >>

\* Line 181.
TooltipWind ==
    /\ pc = "L181"
    /\ LET err == first_missing(current, <<"wind_speed_10m">>)
       IN  IF err = ""
           THEN /\ data' = tooltip_after(data,
                      "Wind: " \o get_wind_speed(current, windspeed_unit) \o "\n")
                /\ pc' = "L182"
                /\ exc' = exc
           ELSE data' = data /\ pc' = "L208" /\ exc' = err
    /\ UNCHANGED << environ, world, config, payload, loop, io >>

\* Line 182.
TooltipHumidity ==
    /\ pc = "L182"
    /\ LET err == first_missing(current, <<"relative_humidity_2m">>)
       IN  IF err = ""
           THEN /\ data' = tooltip_after(data,
                      "Humidity: " \o ToString(current["relative_humidity_2m"]) \o "%\n")
                /\ pc' = "L185"
                /\ exc' = exc
           ELSE data' = data /\ pc' = "L208" /\ exc' = err
    /\ UNCHANGED << environ, world, config, payload, loop, io >>

\* range_stop without the configured day count.
range_stop_all_days(days, n) == n

\* min(FORECAST_DAYS, len(daily["time"])), the end of the loop's range.
range_stop(days, n) == Min(days, n)

\* Line 185: the range is computed once, before the first iteration.
ForecastLoop ==
    /\ pc = "L185"
    /\ IF subscript_error(daily, "time") = ""
       THEN /\ stop' = range_stop(FORECAST_DAYS, Len(daily["time"]))
            /\ i' = 0
            /\ pc' = "L186"
            /\ exc' = exc
       ELSE /\ pc' = "L208"
            /\ exc' = subscript_error(daily, "time")
            /\ UNCHANGED << i, stop >>
    /\ UNCHANGED << environ, world, config, payload, data, icon, weather_desc,
                    weather_icon, io >>

\* d[key][n] for the 0-based n of an array d[key]: "" when it is there, else
\* the message of the KeyError, TypeError or IndexError it raises.
item_error(d, key, n) ==
    IF subscript_error(d, key) # "" THEN subscript_error(d, key)
    ELSE IF n + 1 > Len(d[key]) THEN IndexError
    ELSE ""

\* d[key][n].split("T")[1][:5]
time_error(d, key, n) ==
    IF item_error(d, key, n) # "" THEN item_error(d, key, n)
    ELSE IF Len(split(d[key][n + 1], "T")) < 2 THEN IndexError
    ELSE ""

time_of_day(ts) ==
    LET t == split(ts, "T")[2] IN join(SubSeq(t, 1, Min(5, Len(t))))

RECURSIVE first_error(_)
first_error(errs) ==
    IF errs = <<>> THEN ""
    ELSE IF Head(errs) # "" THEN Head(errs)
    ELSE first_error(Tail(errs))

\* The first exception of lines 186-199 in iteration n, "" when none.
body_error(d, n) ==
    first_error(<< item_error(d, "time", n),
                   item_error(d, "weathercode", n),
                   item_error(d, "temperature_2m_max", n),
                   item_error(d, "temperature_2m_min", n),
                   time_error(d, "sunrise", n),
                   time_error(d, "sunset", n) >>)

\* Line 201.
day_label(n) == IF n = 0 THEN "Today" ELSE "Day " \o ToString(n + 1)

\* Lines 202-205: the four pieces appended for iteration n.
forecast_block(d, n, unit) ==
    << "\n<b>" \o day_label(n) \o " (" \o d["time"][n + 1] \o ")</b>\n",
       get_weather_icon(d["weathercode"][n + 1]) \o " "
          \o get_description(d["weathercode"][n + 1]) \o "\n",
       "{U+2B06}{U+FE0F} " \o temperature(d["temperature_2m_max"][n + 1], unit)
          \o " {U+2B07}{U+FE0F} "
          \o temperature(d["temperature_2m_min"][n + 1], unit) \o "\n",
       "{U+1F305} " \o time_of_day(d["sunrise"][n + 1])
          \o " {U+1F307} " \o time_of_day(d["sunset"][n + 1]) \o "\n" >>

\* Lines 186-205, one iteration.
ForecastDay ==
    /\ pc = "L186"
    /\ i < stop
    /\ IF body_error(daily, i) = ""
       THEN /\ weather_desc' = get_description(daily["weathercode"][i + 1])
            /\ weather_icon' = get_weather_icon(daily["weathercode"][i + 1])
            /\ data' = setitem(data, "tooltip",
                               data["tooltip"] \o forecast_block(daily, i, temp_unit))
            /\ i' = i + 1
            /\ pc' = "L186"
            /\ exc' = exc
       ELSE /\ pc' = "L208"
            /\ exc' = body_error(daily, i)
            /\ IF item_error(daily, "weathercode", i) = ""
               THEN /\ weather_desc' = get_description(daily["weathercode"][i + 1])
                    /\ weather_icon' = get_weather_icon(daily["weathercode"][i + 1])
               ELSE UNCHANGED << weather_desc, weather_icon >>
            /\ UNCHANGED << data, i >>
    /\ UNCHANGED << environ, world, config, payload, icon, stop, io >>

\* The range is exhausted: the try block ends without an exception.
ForecastDone ==
    /\ pc = "L186"
    /\ i >= stop
    /\ pc' = "L213"
    /\ UNCHANGED << environ, world, config, payload, data, loop, exc, io >>

\* processing_error_record that leaves the tooltip as it was built.
processing_error_record_text_only(d, e) ==
    setitem(d, "text", "{U+2753} Processing Error")

\* Lines 210-211.
processing_error_record(d, e) ==
    setitem(setitem(d, "text", "{U+2753} Processing Error"),
            "tooltip", <<"Failed to process weather data: " \o e>>)

\* Lines 207-211: the except clause of the try block.
ProcessingExcept ==
    /\ pc = "L208"
    /\ stderr' = Append(stderr, "ERROR: traceback")
    /\ data' = processing_error_record(data, exc)
    /\ pc' = "L213"
    /\ UNCHANGED << environ, world, config, payload, loop, exc, stdout, exit_code >>

\* Line 213, the last statement: the script ends with status 0.
Emit ==
    /\ pc = "L213"
    /\ stdout' = Append(stdout, data)
    /\ exit_code' = 0
    /\ pc' = "done"
    /\ UNCHANGED << environ, world, config, payload, data, loop, exc, stderr >>

(***************************************************************************)
(* The inputs of a run: the process environment, the two files and the     *)
(* answer of the API.  The initial states are families of runs, each       *)
(* varying one input over a bounded set and holding the others at a        *)
(* default.                                                                *)
(***************************************************************************)
Strings(alphabet, n) == UNION { [1..m -> alphabet] : m \in 0..n }

\* An environment with HOME set and nothing else.
BaseEnv == [k \in {HOME} |-> <<"/", "r">>]

NoEnv == [k \in {} |-> <<>>]

Line(s) == s \o <<"\n">>

\* The lines the environment files are made of.
FileLines ==
    { Line(<<>>),
      Line(<<"#", " ", "c">>),
      Line(<<" ", "#", "c">>),
      Line(<<"j", "u", "n", "k">>),
      Line(WEATHER_TEMPERATURE_UNIT \o <<"=", "f">>),
      Line(EXPORT \o WEATHER_TEMPERATURE_UNIT \o <<"=", "\"", "F", "\"">>) }

Files ==
    {Missing} \cup { File(l) : l \in UNION { [1..m -> FileLines] : m \in 0..MaxLines } }

NoFiles == [staterc |-> Missing, config |-> Missing]

Timeout == [ok |-> FALSE, error |-> "Read timed out.", json |-> <<>>]

\* The ways the try block of line 156 fails: requests.get raises, the
\* status is not 2xx, the body is not JSON.
FetchFailures ==
    { Timeout,
      [ok |-> FALSE, error |-> "Connection refused", json |-> <<>>],
      [ok |-> FALSE, error |-> "500 Server Error", json |-> <<>>],
      [ok |-> FALSE, error |-> "Expecting value: line 1 column 1 (char 0)",
       json |-> <<>>] }

Response(json) == [ok |-> TRUE, error |-> "", json |-> json]

Sunrise ==
    <<"2", "0", "2", "4", "-", "0", "5", "-", "0", "1", "T", "0", "6", ":", "3", "0">>

Sunset ==
    <<"2", "0", "2", "4", "-", "0", "5", "-", "0", "1", "T", "2", "1", ":", "0", "5">>

\* A timestamp without its "T".
BadTime == <<"0", "6", ":", "3", "0">>

Current(code, humidity) ==
    [k \in {"temperature_2m", "weathercode", "wind_speed_10m", "relative_humidity_2m"} |->
        CASE k = "temperature_2m" -> 20
          [] k = "weathercode" -> code
          [] k = "wind_speed_10m" -> 10
          [] k = "relative_humidity_2m" -> humidity]

DailyKeys ==
    {"time", "weathercode", "temperature_2m_max", "temperature_2m_min",
     "sunrise", "sunset"}

\* n days of forecast, every array of length n.
Daily(n, code) ==
    [k \in DailyKeys |->
        [j \in 1..n |->
            CASE k = "time" -> "2024-05-0" \o ToString(j)
              [] k = "weathercode" -> code
              [] k = "temperature_2m_max" -> 20 + j
              [] k = "temperature_2m_min" -> 10 - j
              [] k = "sunrise" -> Sunrise
              [] k = "sunset" -> Sunset]]

Payload(cur, dly) == [k \in {"current", "daily"} |-> IF k = "current" THEN cur ELSE dly]

without(f, key) == [k \in DOMAIN f \ {key} |-> f[k]]

\* The payloads of the API: well formed with 0..MaxDaily days, or with one
\* defect: null in place of an object, a key missing at the
\* top, in current or in daily, a daily array shorter than the time array,
\* or a timestamp without its time of day.
Payloads ==
    UNION { LET cur == Current(0, 50)
                dly == Daily(n, 0)
                good == Payload(cur, dly)
            IN  {good, Null, Payload(Null, dly), Payload(cur, Null)}
                \cup { without(good, k) : k \in DOMAIN good }
                \cup { Payload(without(cur, k), dly) : k \in DOMAIN cur }
                \cup { Payload(cur, without(dly, k)) : k \in DailyKeys }
                \cup { Payload(cur, [dly EXCEPT ![k] = SubSeq(@, 1, m)]) :
                          k \in DailyKeys \ {"time"}, m \in 0..(n - 1) }
                \cup { Payload(cur, [dly EXCEPT ![k][j] = BadTime]) :
                          k \in {"sunrise", "sunset"}, j \in 1..n }
          : n \in 0..MaxDaily }

\* The payloads that differ by the weather code alone.
CodePayloads ==
    { Payload(Current(c, h), Daily(1, c)) : c \in (0 - 1)..MaxCode, h \in {50, 80} }

\* Environments that differ by the display options.
RunEnvs ==
    { LET e1 == IF d = <<>> THEN BaseEnv ELSE setenv(BaseEnv, WEATHER_FORECAST_DAYS, d)
          e2 == IF u = <<>> THEN e1 ELSE setenv(e1, WEATHER_TEMPERATURE_UNIT, u)
          e3 == IF s = <<>> THEN e2 ELSE setenv(e2, WEATHER_SHOW_ICON, s)
      IN  IF l = <<>> THEN e3 ELSE setenv(e3, WEATHER_SHOW_LOCATION, l)
      : d \in {<<>>, <<"1">>, <<"2">>},
        u \in {<<>>, <<"F">>},
        s \in {<<>>, <<"n", "o">>},
        l \in {<<>>, <<"0">>} }

UnitEnvs ==
    { setenv(BaseEnv, WEATHER_TEMPERATURE_UNIT, s) :
         s \in Strings({"c", "C", "f", "F", "k"}, MaxUnitLen) }
    \cup { setenv(BaseEnv, WEATHER_TIME_FORMAT, s) :
         s \in Strings({"1", "2", "4", "h", "H"}, MaxUnitLen) }
    \cup { setenv(BaseEnv, WEATHER_WINDSPEED_UNIT, s) :
         s \in Strings({"k", "m", "/", "h", "p", "M"}, MaxUnitLen) }

DaysEnvs ==
    { setenv(BaseEnv, WEATHER_FORECAST_DAYS, s) :
         s \in Strings({"0", "2", "3", "5", "-", " ", "x"}, MaxDaysLen) }

LocationEnvs ==
    { setenv(BaseEnv, WEATHER_LOCATION, s) :
         s \in Strings({"1", ".", ",", "-", "x"}, MaxLocLen) }

Inputs ==
    \* the environment files
    /\ \/ /\ environ \in {BaseEnv, setenv(BaseEnv, WEATHER_TEMPERATURE_UNIT, <<"k">>)}
          /\ fs \in [staterc : Files, config : Files]
          /\ api = Timeout
       \* no HOME
       \/ /\ environ \in {NoEnv, without(setenv(BaseEnv, WEATHER_FORECAST_DAYS, <<"2">>), HOME)}
          /\ fs = NoFiles
          /\ api \in {Timeout, Response(Payload(Current(0, 50), Daily(1, 0)))}
       \* the values of the environment variables
       \/ /\ environ \in UnitEnvs \cup DaysEnvs \cup LocationEnvs
          /\ fs = NoFiles
          /\ api = Timeout
       \* the payloads
       \/ /\ environ \in RunEnvs
          /\ fs = NoFiles
          /\ api \in { Response(p) : p \in Payloads }
       \* the failures of the fetch
       \/ /\ environ = BaseEnv
          /\ fs = NoFiles
          /\ api \in FetchFailures
       \* the weather codes
       \/ /\ environ = BaseEnv
          /\ fs = NoFiles
          /\ api \in { Response(p) : p \in CodePayloads }

Init ==
    /\ Inputs
    /\ pc = "L105"
    /\ temp_unit = None /\ time_format = None /\ windspeed_unit = None
    /\ show_icon = FALSE /\ show_location = FALSE /\ show_today_details = FALSE
    /\ FORECAST_DAYS = 0 /\ get_location = None /\ lat = None /\ lon = None
    /\ weather = None /\ current = None /\ daily = None
    /\ data = None
    /\ icon = "" /\ i = 0 /\ stop = 0
    /\ weather_desc = "" /\ weather_icon = ""
    /\ exc = ""
    /\ stdout = <<>> /\ stderr = <<>> /\ exit_code = 0

Next ==
    \/ LoadStaterc \/ LoadConfig \/ ReadEnv \/ Validate
    \/ Fetch \/ FetchExcept \/ Exit
    \/ GetCurrent \/ GetDaily
    \/ TextTemperature \/ TextIcon \/ TextLocation
    \/ TooltipHead \/ TooltipFeelsLike \/ TooltipWind \/ TooltipHumidity
    \/ ForecastLoop \/ ForecastDay \/ ForecastDone
    \/ ProcessingExcept \/ Emit

Spec == Init /\ [][Next]_vars

(***************************************************************************)
(* Properties.                                                             *)
(***************************************************************************)
HomeSet == HOME \in DOMAIN environ

\* The run died on the traceback of line 105.
Crashed == pc = "done" /\ ~HomeSet

\* Lines 109-135 have run: the configuration is resolved.
Resolved == pc \notin {"L105", "L106", "L109", "L128"} /\ ~Crashed

\* The GET failed and its except clause has been entered.
FetchFailed == pc \in {"L161", "L164", "done"} /\ ~Crashed /\ ~api.ok

\* An exception was raised in the try block of line 166 and handled.
ProcessingFailed == pc \in {"L213", "done"} /\ api.ok /\ exc # "" /\ ~Crashed

\* The try block of line 166 ended without an exception.
Processed == pc \in {"L213", "done"} /\ api.ok /\ exc = "" /\ ~Crashed

\* C1: every run that has ended has written exactly one line on standard
\* output, and no run ever has more than one line on it.
C1_ExactlyOneLine ==
    /\ Len(stdout) <= 1
    /\ pc = "done" => Len(stdout) = 1

\* What holds of the code in place of C1: a run that has HOME ends with
\* exactly one line on standard output.
OneLineWhenHomeSet ==
    /\ Len(stdout) <= 1
    /\ pc = "done" /\ HomeSet => Len(stdout) = 1

\* C2: when the fetch fails, the run writes the record with the text
\* "? Weather Error" and the tooltip "Failed to get weather data: <msg>",
\* these two fields only, before it terminates, it terminates with exit
\* code 1, and no step of the presentation runs.
C2_FetchFailure ==
    FetchFailed =>
        /\ pc \in {"L164", "done"} =>
              stdout = << [text |-> "{U+2753} Weather Error",
                           tooltip |-> <<"Failed to get weather data: " \o api.error>>] >>
        /\ pc = "L161" => stdout = <<>>
        /\ pc = "done" => exit_code = 1
        /\ weather = None /\ current = None /\ daily = None

C2_Witness ==
    /\ pc = "done" /\ FetchFailed
    /\ Len(stdout) = 1 /\ exit_code = 1

\* C3: when an exception is raised while the payload is processed, at
\* whatever point, the record emitted is exactly the text "? Processing
\* Error" and the tooltip "Failed to process weather data: <message>", with
\* nothing of the text or tooltip built so far, and the exit code is 0.
C3_ProcessingFailure ==
    ProcessingFailed =>
        /\ data = [text |-> "{U+2753} Processing Error",
                   tooltip |-> <<"Failed to process weather data: " \o exc>>]
        /\ pc = "done" => stdout = <<data>> /\ exit_code = 0

\* The exception is raised in the second iteration of the forecast loop,
\* with the text and five pieces of the tooltip already built.
C3_Witness ==
    /\ pc = "done" /\ ProcessingFailed
    /\ i = 1 /\ exc = IndexError

\* What the claims C4 and C5 call an assignment line: not blank, not a
\* comment, and of the form KEY=VALUE or export KEY=VALUE.
Unexported(line) ==
    LET t == strip(line, Whitespace)
    IN  IF startswith(t, EXPORT) THEN SubSeq(t, Len(EXPORT) + 1, Len(t)) ELSE t

IsAssignment(line) ==
    LET t == Unexported(line)
    IN  /\ t # <<>>
        /\ Head(strip(line, Whitespace)) # "#"
        /\ find(t, "=") > 1

AssignedKey(line) == split1(Unexported(line), "=")[1]

AssignedValue(line) == strip(split1(Unexported(line), "=")[2], {"\""})

\* The keys a file assigns, and the value of the last assignment to a key.
KeysOf(file) ==
    { AssignedKey(file.lines[k]) :
        k \in { j \in 1..Len(file.lines) : IsAssignment(file.lines[j]) } }

LastValue(file, key) ==
    LET ks == { j \in 1..Len(file.lines) :
                  IsAssignment(file.lines[j]) /\ AssignedKey(file.lines[j]) = key }
        last == CHOOSE j \in ks : \A m \in ks : m <= j
    IN  AssignedValue(file.lines[last])

\* C4: after both files are loaded, a key that the second file (config)
\* assigns has the value of the second file, also when the first file
\* (staterc) or the process environment gave it another value, and a key
\* that only the first file assigns has the value of the first file.
C4_LaterFileWins ==
    pc = "L109" =>
        /\ \A key \in KeysOf(fs.config) :
              key \in DOMAIN environ /\ environ[key] = LastValue(fs.config, key)
        /\ \A key \in KeysOf(fs.staterc) \ KeysOf(fs.config) :
              key \in DOMAIN environ /\ environ[key] = LastValue(fs.staterc, key)

\* C5: after a file is loaded, every assignment line of it has taken
\* effect, whatever lines precede it: the key of the line has the value of
\* the last line of the file that assigns it, double quotes removed.
C5_EveryAssignmentTakesEffect ==
    pc = "L106" =>
        \A key \in KeysOf(fs.staterc) :
            key \in DOMAIN environ /\ environ[key] = LastValue(fs.staterc, key)

\* load_env_file reads the file to its end: no line of it raises.
Uncut(file) ==
    \A k \in 1..Len(file.lines) :
        \/ strip(file.lines[k], Whitespace) = <<>>
        \/ startswith(file.lines[k], <<"#">>)
        \/ IsAssignment(file.lines[k])

\* What holds of the code in place of C4 and C5: the statements above, for
\* files that are read to their end.
LaterFileWinsWhenUncut ==
    pc = "L109" /\ Uncut(fs.staterc) /\ Uncut(fs.config) =>
        /\ \A key \in KeysOf(fs.config) :
              key \in DOMAIN environ /\ environ[key] = LastValue(fs.config, key)
        /\ \A key \in KeysOf(fs.staterc) \ KeysOf(fs.config) :
              key \in DOMAIN environ /\ environ[key] = LastValue(fs.staterc, key)

AssignmentsTakeEffectWhenUncut ==
    pc = "L106" /\ Uncut(fs.staterc) =>
        \A key \in KeysOf(fs.staterc) :
            key \in DOMAIN environ /\ environ[key] = LastValue(fs.staterc, key)

\* C6: once the configuration is resolved, the temperature unit is c or f,
\* the time format 12h or 24h and the wind-speed unit km/h or mph; each is
\* the lower-cased value of its variable when that is one of the two, and
\* the default (c, 12h, km/h) otherwise; and a run that has HOME never ends
\* without its line of output.
C6_UnitsResolved ==
    /\ Resolved =>
        LET t == lower(getenv(environ, WEATHER_TEMPERATURE_UNIT, <<"c">>))
            f == lower(getenv(environ, WEATHER_TIME_FORMAT, <<"1", "2", "h">>))
            w == lower(getenv(environ, WEATHER_WINDSPEED_UNIT, <<"k", "m", "/", "h">>))
        IN  /\ temp_unit \in { <<"c">>, <<"f">> }
            /\ time_format \in { <<"1", "2", "h">>, <<"2", "4", "h">> }
            /\ windspeed_unit \in { <<"k", "m", "/", "h">>, <<"m", "p", "h">> }
            /\ temp_unit = IF t \in { <<"c">>, <<"f">> } THEN t ELSE <<"c">>
            /\ time_format = IF f \in { <<"1", "2", "h">>, <<"2", "4", "h">> }
                             THEN f ELSE <<"1", "2", "h">>
            /\ windspeed_unit = IF w \in { <<"k", "m", "/", "h">>, <<"m", "p", "h">> }
                                THEN w ELSE <<"k", "m", "/", "h">>
    /\ pc = "done" /\ HomeSet => Len(stdout) = 1

\* An invalid temperature unit ("kF") has been replaced by the default.
C6_Witness ==
    /\ Resolved /\ pc = "done"
    /\ getenv(environ, WEATHER_TEMPERATURE_UNIT, <<>>) = <<"k", "F">>
    /\ temp_unit = <<"c">>

\* C7: once the configuration is resolved, the forecast day count is in
\* 1..3: it is the value of WEATHER_FORECAST_DAYS when that is an integer
\* in [1,3], and 3 when it is another integer, not an integer, or unset.
C7_ForecastDaysResolved ==
    Resolved =>
        LET r == int(getenv(environ, WEATHER_FORECAST_DAYS, <<"3">>))
        IN  /\ FORECAST_DAYS \in 1..3
            /\ r.ok /\ r.val \in 1..3 => FORECAST_DAYS = r.val
            /\ ~(r.ok /\ r.val \in 1..3) => FORECAST_DAYS = 3
            /\ WEATHER_FORECAST_DAYS \notin DOMAIN environ => FORECAST_DAYS = 3

\* WEATHER_FORECAST_DAYS="5" has resolved to 3.
C7_Witness ==
    /\ Resolved
    /\ getenv(environ, WEATHER_FORECAST_DAYS, <<>>) = <<"5">>
    /\ FORECAST_DAYS = 3

\* C8: once the configuration is resolved, the latitude and the longitude
\* are both the numbers of WEATHER_LOCATION when it is exactly two
\* comma-separated numbers, and both the defaults (48.8566, 2.3522) when it
\* is anything else: never one of each.
C8_LocationResolved ==
    Resolved =>
        LET parts == split(getenv(environ, WEATHER_LOCATION, DefaultLocation), ",")
            two == Len(parts) = 2 /\ float(parts[1]).ok /\ float(parts[2]).ok
        IN  /\ two => lat = float(parts[1]).val /\ lon = float(parts[2]).val
            /\ ~two => lat = DefaultLat /\ lon = DefaultLon

\* One numeric and one non-numeric part: "1,x" has resolved to the defaults.
C8_Witness ==
    /\ Resolved
    /\ getenv(environ, WEATHER_LOCATION, <<>>) = <<"1", ",", "x">>
    /\ lat = DefaultLat /\ lon = DefaultLon

\* The codes of the fixed table, as the specification lists them.
TableCodes == {0, 1, 2, 3, 45, 48, 51, 53, 55, 61, 63, 65, 80, 81, 82, 95, 96, 99}

\* C9: the icon and the description looked up for a weather code are the
\* mapped ones for the 18 codes of the table and the fallbacks ("?",
\* "Unknown") for every other code: the icon is the fallback exactly when
\* the description is.
C9_Lookups ==
    /\ pc = "L186" /\ i >= 1 =>
        LET c == daily["weathercode"][i]
        IN  /\ c \in TableCodes =>
                 /\ weather_icon = WMO_WEATHER_CODES[c] /\ weather_icon # "{U+2753}"
                 /\ weather_desc = descriptions[c] /\ weather_desc # "Unknown"
            /\ c \notin TableCodes =>
                 weather_icon = "{U+2753}" /\ weather_desc = "Unknown"
    /\ pc = "L175" /\ show_icon =>
        (icon = "{U+2753}") = (current["weathercode"] \notin TableCodes)

\* The last code of the table has been looked up in the forecast loop.
C9_Witness ==
    /\ pc = "L186" /\ i = 1
    /\ daily["weathercode"][1] = 99
    /\ weather_desc = "Thunderstorm with heavy hail"
    /\ weather_icon = "{U+26C8}{U+FE0F}"

\* C10: when the payload is processed without an exception, the tooltip is
\* its four lines about the current weather followed by exactly
\* min(FORECAST_DAYS, number of days in the payload) blocks of four pieces,
\* the k-th block headed by the k-th date of the payload and labelled
\* "Today" for the first and "Day k" for the k-th, k >= 2.
C10_ForecastBlocks ==
    Processed =>
        LET n == IF FORECAST_DAYS < Len(daily["time"])
                 THEN FORECAST_DAYS ELSE Len(daily["time"])
        IN  /\ Len(data["tooltip"]) = 4 + 4 * n
            /\ \A k \in 1..n :
                  data["tooltip"][4 * k + 1] =
                      "\n<b>" \o (IF k = 1 THEN "Today" ELSE "Day " \o ToString(k))
                         \o " (" \o daily["time"][k] \o ")</b>\n"

\* Four days in the payload, two configured: two blocks, "Today" and "Day 2".
C10_Witness ==
    /\ Processed /\ pc = "done"
    /\ FORECAST_DAYS = 2 /\ Len(daily["time"]) = 4
    /\ Len(data["tooltip"]) = 12

=============================================================================
